---- MODULE Spec2Model ----
(***************************************************************************)
(* Model of ochre/Models/Water-PCM.py: class TankWithPCM, a stratified     *)
(* water tank whose RC network is augmented with one PCM node.             *)
(*                                                                         *)
(* Floating-point numbers are modelled as exact rationals <<n, d>> in      *)
(* lowest terms with d > 0; d = 0 encodes the non-finite numpy results     *)
(* (<<1,0>> = inf, <<-1,0>> = -inf, <<0,0>> = nan).  Python sequences are   *)
(* 0-based; At(s, i) reads s[i].  The base class StratifiedWaterModel is   *)
(* not part of the sources: what it supplies (geometry, base RC mapping,   *)
(* name registries, water-draw injections, h_injections, states) enters    *)
(* the model as inputs drawn from small sets.                              *)
(* the model as inputs drawn from small sets.  The base constructor is     *)
(* taken to call load_rc_data once, with the PCM arguments available, and  *)
(* the registries to list the water nodes in order followed by the PCM     *)
(* node.  Negative (wrap-around) values of pcm_water_node are not drawn.   *)
(***************************************************************************)
EXTENDS Integers, Sequences, FiniteSets, TLC

VARIABLES
    phase,              \* "new" | "ready" (constructed) | "failed" (constructor raised)
    n_nodes,            \* number of water nodes (base class attribute)
    pcm_water_node,     \* constructor argument / self.pcm_water_node
    pcm_vol_fraction,   \* constructor argument / self.pcm_vol_fraction
    verbosity,          \* base class attribute
    impl,               \* TRUE iff a subclass overrides get_pcm_heat_xfer
    base_volume,        \* self.volume as left by the base builder
    base_vol_fractions, \* self.vol_fractions as left by the base builder
    base_rc_params,     \* mapping returned by super().load_rc_data
    volume,             \* self.volume
    vol_fractions,      \* self.vol_fractions
    rc_params,          \* mapping returned by load_rc_data
    state_names,        \* self.state_names
    input_names,        \* self.input_names
    t_pcm_idx,          \* self.t_pcm_idx
    h_pcm_idx,          \* self.h_pcm_idx
    states,             \* self.states
    h_injections,       \* self.h_injections (owned by the base class)
    current_schedule,   \* self.current_schedule; <<>> before the first step
    inputs_init,        \* self.inputs_init
    pcm_heat_to_water,  \* self.pcm_heat_to_water: <<>> for None, <<q>> for the number q
    heats_to_model,     \* vector returned by update_water_draw in the latest step
    fault,              \* exception raised by the latest call, or "none"
    results,            \* mapping returned by the latest generate_results; <<>> before
    last                \* the latest call

vars == <<phase, n_nodes, pcm_water_node, pcm_vol_fraction, verbosity, impl,
          base_volume, base_vol_fractions, base_rc_params, volume,
          vol_fractions, rc_params, state_names, input_names, t_pcm_idx,
          h_pcm_idx, states, h_injections, current_schedule, inputs_init,
          pcm_heat_to_water, heats_to_model, fault, results, last>>

config_vars == <<n_nodes, pcm_water_node, pcm_vol_fraction, verbosity, impl,
                 base_volume, base_vol_fractions, base_rc_params, states,
                 h_injections>>

structure_vars == <<volume, vol_fractions, rc_params>>

registry_vars == <<state_names, input_names, t_pcm_idx, h_pcm_idx>>

----------------------------------------------------------------------------
(* Bounds of the model *)

MaxNodes == 2   \* largest number of water nodes
Denom == 2      \* fractions are multiples of 1/Denom

----------------------------------------------------------------------------
(* Exact arithmetic standing in for floats *)

Abs(x) == IF x < 0 THEN -x ELSE x

Sgn(x) == IF x < 0 THEN -1 ELSE IF x > 0 THEN 1 ELSE 0

RECURSIVE GCD(_, _)
GCD(a, b) == IF b = 0 THEN a ELSE GCD(b, a % b)

Norm(n, d) ==
    IF d = 0 THEN <<Sgn(n), 0>>
    ELSE LET g == GCD(Abs(n), Abs(d))
             s == Sgn(d)
         IN  <<(s * n) \div g, (s * d) \div g>>

Rat(n) == <<n, 1>>
Zero == Rat(0)
One == Rat(1)
NaN == <<0, 0>>

IsFinite(a) == a[2] # 0
IsNaN(a) == a = NaN

RMul(a, b) == Norm(a[1] * b[1], a[2] * b[2])

RAdd(a, b) ==
    IF IsFinite(a) \/ IsFinite(b)
    THEN Norm(a[1] * b[2] + b[1] * a[2], a[2] * b[2])
    ELSE IF a = b THEN a ELSE NaN

RNeg(a) == <<-a[1], a[2]>>

RSub(a, b) == RAdd(a, RNeg(b))

RDiv(a, b) ==
    IF IsFinite(b) /\ b[1] # 0
    THEN Norm(a[1] * b[2] * Sgn(b[1]), a[2] * Abs(b[1]))
    ELSE Norm(a[1] * b[2], a[2] * b[1])

RLt(a, b) == IsFinite(a) /\ IsFinite(b) /\ a[1] * b[2] < b[1] * a[2]

RLe(a, b) == a = b \/ RLt(a, b)

----------------------------------------------------------------------------
(* Python sequence helpers *)

At(s, i) == s[i + 1]

Index(names, x) == (CHOOSE i \in 1..Len(names) :
                       /\ names[i] = x
                       /\ \A j \in 1..(i - 1) : names[j] # x) - 1

RECURSIVE RSum(_)
RSum(s) == IF s = <<>> THEN Zero ELSE RAdd(RSum(SubSeq(s, 1, Len(s) - 1)), s[Len(s)])

RECURSIVE ISum(_)
ISum(s) == IF s = <<>> THEN 0 ELSE ISum(SubSeq(s, 1, Len(s) - 1)) + s[Len(s)]

SeqMax(s) == CHOOSE x \in {s[i] : i \in 1..Len(s)} : \A j \in 1..Len(s) : s[j] <= x
SeqMin(s) == CHOOSE x \in {s[i] : i \in 1..Len(s)} : \A j \in 1..Len(s) : x <= s[j]

----------------------------------------------------------------------------
(* Constants of Water-PCM.py *)

water_c == Rat(4183)
solid_pcm_c == Norm(17176, 10)
solid_pcm_conductivity == Norm(28, 100)
VerbosityThreshold == 6

----------------------------------------------------------------------------
(* What the base class StratifiedWaterModel supplies *)

CLabel(i) == "C_WH" \o ToString(i)
RAmbLabel(i) == "R_WH" \o ToString(i) \o "_AMB"
RPcmLabel(i) == "R_PCM_WH" \o ToString(i)

\* Volume-fraction sequences of n water nodes: multiples of 1/Denom, summing to 1.
BaseVolFractions(n) ==
    {[i \in 1..n |-> Norm(k[i], Denom)] :
        k \in {c \in [1..n -> 0..Denom] : ISum(c) = Denom}}

\* super().load_rc_data: one capacitance per water node (water_c * volume *
\* fraction) and one resistance to ambient per water node.
BaseRcParams(n, V, vf) ==
    [k \in {CLabel(i) : i \in 1..n} |->
        RMul(RMul(water_c, V), vf[CHOOSE i \in 1..n : CLabel(i) = k])]
    @@ [k \in {RAmbLabel(i) : i \in 1..n} |-> One]

\* Name registries built by the base class from the RC mapping: the water
\* nodes in order, then the PCM node; inputs are the ambient temperature
\* followed by one heat injection per node.
StateNames(n) ==
    [i \in 1..(n + 1) |-> IF i <= n THEN "T_WH" \o ToString(i) ELSE "T_PCM"]

InputNames(n) ==
    <<"T_AMB">> \o
    [i \in 1..(n + 1) |-> IF i <= n THEN "H_WH" \o ToString(i) ELSE "H_PCM"]

Volumes == {Rat(100)}
PcmVolFractions == {Norm(k, Denom) : k \in (-1)..(Denom + 1)}
Verbosities == {5, 6}
WaterTemps == {40, 55}
PcmTemps == {30, 60}
HeaterInjections == {0, 3}
ZoneTemps == {20}
DrawHeats == {0, -4}
PcmFluxes == {-2, 0, 2}

----------------------------------------------------------------------------
(* TankWithPCM.load_rc_data *)

\* lines 57-58
pcm_volume_of(V, vf, w, p) == RMul(RMul(V, At(vf, w)), p)

\* Variant: the water volume is not reduced by the PCM volume.
load_rc_data_volume_kept(V, vf, w, p) == V

\* line 62
load_rc_data_volume(V, vf, w, p) == RSub(V, pcm_volume_of(V, vf, w, p))

\* Variant: the host fraction is scaled but the sequence is not renormalised.
load_rc_data_vol_fractions_unnormalised(vf, w, p) ==
    [vf EXCEPT ![w + 1] = RMul(@, RSub(One, p))]

\* lines 63-64
load_rc_data_vol_fractions(vf, w, p) ==
    LET scaled == [vf EXCEPT ![w + 1] = RMul(@, RSub(One, p))]
        total == RSum(scaled)
    IN  [i \in 1..Len(vf) |-> RDiv(scaled[i], total)]

\* Variant: the host capacitance is scaled by p instead of 1 - p.
load_rc_data_rc_params_wrong_scale(rc, V, vf, w, p) ==
    LET pcm_volume == pcm_volume_of(V, vf, w, p)
        host == CLabel(w + 1)
        scaled == [rc EXCEPT ![host] = RMul(@, p)]
    IN  [k \in DOMAIN rc \cup {"C_PCM", RPcmLabel(w + 1)} |->
            IF k = RPcmLabel(w + 1) THEN RDiv(pcm_volume, solid_pcm_conductivity)
            ELSE IF k = "C_PCM" THEN RMul(solid_pcm_c, pcm_volume)
            ELSE scaled[k]]

\* lines 54, 59, 67, 70
load_rc_data_rc_params(rc, V, vf, w, p) ==
    LET pcm_volume == pcm_volume_of(V, vf, w, p)
        host == CLabel(w + 1)
        scaled == [rc EXCEPT ![host] = RMul(@, RSub(One, p))]
    IN  [k \in DOMAIN rc \cup {"C_PCM", RPcmLabel(w + 1)} |->
            IF k = RPcmLabel(w + 1) THEN RDiv(pcm_volume, solid_pcm_conductivity)
            ELSE IF k = "C_PCM" THEN RMul(solid_pcm_c, pcm_volume)
            ELSE scaled[k]]

----------------------------------------------------------------------------
(* State after the arguments are chosen, before TankWithPCM.__init__ runs *)

Init ==
    /\ phase = "new"
    /\ n_nodes \in 1..MaxNodes
    /\ pcm_water_node \in 0..n_nodes
    /\ pcm_vol_fraction \in PcmVolFractions
    /\ verbosity \in Verbosities
    /\ impl \in BOOLEAN
    /\ base_volume \in Volumes
    /\ base_vol_fractions \in BaseVolFractions(n_nodes)
    /\ base_rc_params = BaseRcParams(n_nodes, base_volume, base_vol_fractions)
    /\ volume = base_volume
    /\ vol_fractions = base_vol_fractions
    /\ rc_params = base_rc_params
    /\ state_names = <<>>
    /\ input_names = <<>>
    /\ t_pcm_idx = "None"
    /\ h_pcm_idx = "None"
    /\ states \in {w \o <<t>> : w \in [1..n_nodes -> WaterTemps], t \in PcmTemps}
    /\ h_injections \in HeaterInjections
    /\ current_schedule = <<>>
    /\ inputs_init = <<>>
    /\ pcm_heat_to_water = <<>>
    /\ heats_to_model = <<>>
    /\ fault = "none"
    /\ results = <<>>
    /\ last = "none"

(* TankWithPCM.__init__, with the load_rc_data call the base constructor makes *)
TankWithPCM_init ==
    /\ phase = "new"
    /\ last' = "__init__"
    /\ UNCHANGED config_vars
    /\ UNCHANGED <<current_schedule, inputs_init, heats_to_model, results>>
    /\ IF pcm_water_node \notin 0..(n_nodes - 1)
       THEN \* line 57: vol_fractions[pcm_water_node] raises
            /\ phase' = "failed"
            /\ fault' = "IndexError"
            /\ UNCHANGED <<structure_vars, registry_vars, pcm_heat_to_water>>
       ELSE /\ phase' = "ready"
            /\ fault' = "none"
            /\ volume' = load_rc_data_volume(volume, vol_fractions,
                                             pcm_water_node, pcm_vol_fraction)
            /\ vol_fractions' = load_rc_data_vol_fractions(vol_fractions,
                                             pcm_water_node, pcm_vol_fraction)
            /\ rc_params' = load_rc_data_rc_params(rc_params, volume, vol_fractions,
                                             pcm_water_node, pcm_vol_fraction)
            /\ state_names' = StateNames(n_nodes)
            /\ input_names' = InputNames(n_nodes)
            /\ t_pcm_idx' = Index(state_names', "T_PCM")
            /\ h_pcm_idx' = Index(input_names', "H_PCM")
            /\ pcm_heat_to_water' = <<>>

----------------------------------------------------------------------------
(* TankWithPCM.update_inputs *)

\* line 86: the per-node injections computed from the water draw; the draw
\* heats the water nodes only.
update_water_draw ==
    {[i \in 1..(n_nodes + 1) |-> IF i <= n_nodes THEN d * i ELSE 0] : d \in DrawHeats}

\* Variant: without an override the flux defaults to 0 instead of raising.
get_pcm_heat_xfer_default ==
    IF impl
    THEN {[raises |-> "none", value |-> q] : q \in PcmFluxes}
    ELSE {[raises |-> "none", value |-> 0]}

\* lines 74-75, or the override of a concrete subclass: the possible outcomes.
get_pcm_heat_xfer ==
    IF impl
    THEN {[raises |-> "none", value |-> q] : q \in PcmFluxes}
    ELSE {[raises |-> "NotImplementedError", value |-> 0]}

\* Variant: the flux is added to both entries.
pcm_injections_same_sign(heats, w, t, q) ==
    LET added == [heats EXCEPT ![w + 1] = @ + q]
    IN  [added EXCEPT ![t + 1] = @ + q]

\* Variant: the signs are exchanged.
pcm_injections_swapped(heats, w, t, q) ==
    LET added == [heats EXCEPT ![w + 1] = @ - q]
    IN  [added EXCEPT ![t + 1] = @ + q]

\* lines 90-91
pcm_injections(heats, w, t, q) ==
    LET added == [heats EXCEPT ![w + 1] = @ + q]
    IN  [added EXCEPT ![t + 1] = @ - q]

\* Variant: the zone temperature is not prepended.
concatenate_no_zone(t_zone, heats) == heats

\* line 94
concatenate(t_zone, heats) == <<t_zone>> \o heats

\* lines 77-94, everything but the attributes the method never assigns
update_inputs_body ==
    /\ phase = "ready"
    /\ last' = "update_inputs"
    /\ UNCHANGED <<phase, config_vars, registry_vars, results>>
    /\ \E schedule_inputs \in ZoneTemps, heats \in update_water_draw,
          out \in get_pcm_heat_xfer :
          \* line 79: the base class stores the schedule entry only
          /\ current_schedule' = [zone_temperature |-> schedule_inputs]
          /\ heats_to_model' = heats
          /\ IF out.raises # "none"
             THEN \* line 89 raises before anything is assigned
                  /\ fault' = out.raises
                  /\ UNCHANGED <<pcm_heat_to_water, inputs_init>>
             ELSE /\ fault' = "none"
                  /\ pcm_heat_to_water' = <<out.value>>
                  /\ inputs_init' =
                        concatenate(current_schedule'.zone_temperature,
                                    pcm_injections(heats, pcm_water_node,
                                                   t_pcm_idx, out.value))

\* Variant: every step takes the PCM volume out of the water volume again.
update_inputs_reaugment ==
    /\ update_inputs_body
    /\ volume' = load_rc_data_volume(volume, vol_fractions,
                                     pcm_water_node, pcm_vol_fraction)
    /\ UNCHANGED <<vol_fractions, rc_params>>

update_inputs == update_inputs_body /\ UNCHANGED structure_vars

----------------------------------------------------------------------------
(* TankWithPCM.generate_results *)

\* line 98: the keys of the base class are not modelled
base_results == <<>>

RDot(xs, fs) == RSum([i \in 1..Len(xs) |-> RMul(Rat(xs[i]), fs[i])])

\* lines 100-106
pcm_results ==
    IF verbosity >= VerbosityThreshold
    THEN LET water_states == SubSeq(states, 1, n_nodes)
         IN  [k \in {"Hot Water Average Temperature (C)",
                     "Hot Water Maximum Temperature (C)",
                     "Hot Water Minimum Temperature (C)",
                     "Water Tank PCM Temperature (C)",
                     "Water Tank PCM Heat Injected (W)"} |->
                CASE k = "Hot Water Average Temperature (C)" ->
                        RDot(water_states, vol_fractions)
                  [] k = "Hot Water Maximum Temperature (C)" -> SeqMax(water_states)
                  [] k = "Hot Water Minimum Temperature (C)" -> SeqMin(water_states)
                  [] k = "Water Tank PCM Temperature (C)" -> At(states, t_pcm_idx)
                  [] k = "Water Tank PCM Heat Injected (W)" -> h_injections]
    ELSE <<>>

generate_results ==
    /\ phase = "ready"
    /\ last' = "generate_results"
    /\ fault' = "none"
    /\ results' = pcm_results @@ base_results
    /\ UNCHANGED <<phase, config_vars, structure_vars, registry_vars,
                   current_schedule, inputs_init, pcm_heat_to_water, heats_to_model>>

----------------------------------------------------------------------------

Next == TankWithPCM_init \/ update_inputs \/ generate_results

Spec == Init /\ [][Next]_vars

----------------------------------------------------------------------------
(* Properties *)

Stepped == phase = "ready" /\ last = "update_inputs" /\ fault = "none"

ValidFraction == RLe(Zero, pcm_vol_fraction) /\ RLt(pcm_vol_fraction, One)

\* 1-based positions, in the injection vector, of the entries named for the
\* host water node and for the PCM node in the input name registry
\* (the input vector carries the zone temperature in front of the injections).
HostEntry == Index(input_names, "H_WH" \o ToString(pcm_water_node + 1))
PcmEntry == Index(input_names, "H_PCM")

Injections == Tail(inputs_init)
Delta(i) == Injections[i] - heats_to_model[i]

\* C1: in every step of update_inputs the change of the host node's injection
\* entry plus the change of the PCM node's injection entry, relative to the
\* vector update_water_draw returned, is zero, and no other entry changes.
C1_Conservation ==
    Stepped =>
        /\ Len(Injections) = Len(heats_to_model)
        /\ Delta(HostEntry) + Delta(PcmEntry) = 0
        /\ \A i \in 1..Len(Injections) : i \notin {HostEntry, PcmEntry} => Delta(i) = 0

C1_Witness == Stepped /\ pcm_heat_to_water = <<2>> /\ Delta(HostEntry) = 2

\* C2: the flux is added at the host node's entry and subtracted at the entry
\* the registry names H_PCM; the two entries are distinct.
C2_SignedEntries ==
    Stepped =>
        /\ HostEntry # PcmEntry
        /\ At(inputs_init, HostEntry) = heats_to_model[HostEntry] + pcm_heat_to_water[1]
        /\ At(inputs_init, PcmEntry) = heats_to_model[PcmEntry] - pcm_heat_to_water[1]
        /\ At(inputs_init, h_pcm_idx) = heats_to_model[h_pcm_idx] - pcm_heat_to_water[1]

C2_Witness ==
    /\ Stepped
    /\ pcm_heat_to_water = <<-2>>
    /\ heats_to_model[HostEntry] # 0
    /\ At(inputs_init, PcmEntry) = 2

\* C3: for every valid configuration the volume fractions sum to 1 after
\* load_rc_data and the host fraction is f*(1-p)/(1-f*p).
C3_FractionsNormalised ==
    (phase = "ready" /\ ValidFraction) =>
        LET f == At(base_vol_fractions, pcm_water_node)
            p == pcm_vol_fraction
        IN  /\ RSum(vol_fractions) = One
            /\ At(vol_fractions, pcm_water_node) =
                   RDiv(RMul(f, RSub(One, p)), RSub(One, RMul(f, p)))

C3_Witness ==
    /\ phase = "ready"
    /\ ValidFraction
    /\ pcm_vol_fraction # Zero
    /\ At(base_vol_fractions, pcm_water_node) \notin {Zero, One}
    /\ At(vol_fractions, pcm_water_node) # At(base_vol_fractions, pcm_water_node)

\* C4: after load_rc_data the host node's absolute water volume is its base
\* absolute volume minus pcm_volume = base volume * base fraction * p.
C4_HostVolumeReduced ==
    (phase = "ready" /\ ValidFraction) =>
        LET f == At(base_vol_fractions, pcm_water_node)
            host_base == RMul(base_volume, f)
            pcm_volume == RMul(host_base, pcm_vol_fraction)
        IN  RMul(volume, At(vol_fractions, pcm_water_node)) = RSub(host_base, pcm_volume)

C4_Witness ==
    /\ phase = "ready"
    /\ ValidFraction
    /\ RLt(Zero, pcm_vol_fraction)
    /\ RLt(Zero, At(base_vol_fractions, pcm_water_node))
    /\ RLt(volume, base_volume)

\* C5 as stated: at pcm_vol_fraction = 0 the returned mapping is the base
\* mapping, and volume and volume fractions are unchanged.
C5_SameMapping ==
    (phase = "ready" /\ pcm_vol_fraction = Zero) =>
        /\ rc_params = base_rc_params
        /\ volume = base_volume
        /\ vol_fractions = base_vol_fractions

\* C5 amended: at pcm_vol_fraction = 0 every base entry, the volume and the
\* volume fractions keep their base values, and the mapping is the base
\* mapping extended by the two PCM entries, both 0.
C5_BaseEntriesKept ==
    (phase = "ready" /\ pcm_vol_fraction = Zero) =>
        /\ \A k \in DOMAIN base_rc_params : rc_params[k] = base_rc_params[k]
        /\ DOMAIN rc_params =
               DOMAIN base_rc_params \cup {"C_PCM", RPcmLabel(pcm_water_node + 1)}
        /\ rc_params["C_PCM"] = Zero
        /\ rc_params[RPcmLabel(pcm_water_node + 1)] = Zero
        /\ volume = base_volume
        /\ vol_fractions = base_vol_fractions

C5_Witness ==
    /\ phase = "ready"
    /\ pcm_vol_fraction = Zero
    /\ RLt(Zero, rc_params[CLabel(pcm_water_node + 1)])
    /\ "C_PCM" \in DOMAIN rc_params

\* C6: construction with pcm_vol_fraction outside [0,1) is rejected, so no
\* constructed model has a non-positive host capacitance, a negative PCM
\* volume, capacitance or resistance, or a negative volume fraction.
C6_FractionValidated ==
    phase = "ready" =>
        /\ ValidFraction
        /\ ~RLt(rc_params["C_PCM"], Zero)
        /\ ~RLt(rc_params[RPcmLabel(pcm_water_node + 1)], Zero)
        /\ ~RLt(volume, Zero)
        /\ \A i \in 1..Len(vol_fractions) : ~RLt(vol_fractions[i], Zero)

C8_UnimplementedPropagates ==
    [][(update_inputs /\ ~impl) =>
          /\ fault' = "NotImplementedError"
          /\ inputs_init' = inputs_init
          /\ pcm_heat_to_water' = pcm_heat_to_water]_vars

C8_Witness ==
    /\ ~impl
    /\ last = "update_inputs"
    /\ fault = "NotImplementedError"
    /\ inputs_init = <<>>
    /\ pcm_heat_to_water = <<>>

\* C9: generate_results adds no PCM key below verbosity 6 and otherwise
\* exactly five keys: the fraction-weighted average, the maximum and minimum
\* over the water nodes, the PCM temperature, and the flux pcm_heat_to_water
\* of the latest update_inputs.
C9_ResultKeys ==
    (phase = "ready" /\ last = "generate_results") =>
        IF verbosity < 6
        THEN DOMAIN results = {}
        ELSE /\ DOMAIN results = {"Hot Water Average Temperature (C)",
                                  "Hot Water Maximum Temperature (C)",
                                  "Hot Water Minimum Temperature (C)",
                                  "Water Tank PCM Temperature (C)",
                                  "Water Tank PCM Heat Injected (W)"}
             /\ results["Hot Water Average Temperature (C)"] =
                    RDot(SubSeq(states, 1, n_nodes), vol_fractions)
             /\ \A i \in 1..n_nodes :
                    /\ states[i] <= results["Hot Water Maximum Temperature (C)"]
                    /\ states[i] >= results["Hot Water Minimum Temperature (C)"]
             /\ \E i \in 1..n_nodes :
                    states[i] = results["Hot Water Maximum Temperature (C)"]
             /\ \E i \in 1..n_nodes :
                    states[i] = results["Hot Water Minimum Temperature (C)"]
             /\ results["Water Tank PCM Temperature (C)"] = states[n_nodes + 1]
             /\ pcm_heat_to_water # <<>> =>
                    results["Water Tank PCM Heat Injected (W)"] = pcm_heat_to_water[1]

\* C10: once construction has finished, no update_inputs or generate_results
\* call changes the volume, the volume fractions or the RC parameters.
C10_StructureFixed == [][phase = "ready" => UNCHANGED structure_vars]_vars

C10_Witness ==
    /\ phase = "ready"
    /\ last = "generate_results"
    /\ pcm_heat_to_water # <<>>
    /\ volume # base_volume
    /\ vol_fractions # base_vol_fractions
    /\ rc_params # base_rc_params

====
